---- MODULE Spec2Model ----
(***************************************************************************)
(* Insurance template filler: the POST /process handler of flask_app.py    *)
(* and the interactive-form pipeline of streamlit_app.py, as one state     *)
(* machine over pipeline runs.  Text (file names, credentials, page texts, *)
(* LLM responses) is a sequence of one-character strings, so that strip,   *)
(* rsplit, lower, join and json.loads are computed character by character. *)
(***************************************************************************)
EXTENDS Integers, Sequences, FiniteSets, TLC

\* ------------------------------------------------------------ bounds
\* Number of concurrent runs of the concurrent specification.
NumRuns == 2
\* Largest number of report parts in one request.
MaxReports == 2
\* Largest number of pages in all the report documents of one request.
MaxPages == 2

\* ------------------------------------------------------------ text helpers
NL == "\n"

\* str.strip(): Python's whitespace, restricted to the characters in use.
StripWS == {" ", NL}

RECURSIVE LStrip(_)
LStrip(s) ==
    IF s # <<>> /\ Head(s) \in StripWS THEN LStrip(Tail(s)) ELSE s

RECURSIVE RStrip(_)
RStrip(s) ==
    IF s # <<>> /\ s[Len(s)] \in StripWS THEN RStrip(SubSeq(s, 1, Len(s) - 1)) ELSE s

Strip(s) == RStrip(LStrip(s))

\* str.lower() on the letters that occur in file names.
LowerChar(c) ==
    CASE c = "D" -> "d" [] c = "O" -> "o" [] c = "C" -> "c" [] c = "X" -> "x"
      [] c = "P" -> "p" [] c = "F" -> "f" [] c = "T" -> "t" [] OTHER -> c

Lower(s) == [i \in 1..Len(s) |-> LowerChar(s[i])]

\* '.' in filename
HasDot(s) == \E i \in 1..Len(s) : s[i] = "."

\* filename.rsplit('.', 1)[1]: what follows the last dot.
LastDot(s) == CHOOSE i \in 1..Len(s) : s[i] = "." /\ \A j \in (i + 1)..Len(s) : s[j] # "."

RSplitExt(s) == SubSeq(s, LastDot(s) + 1, Len(s))

allowed_file(filename, allowed_extensions) ==
    HasDot(filename) /\ Lower(RSplitExt(filename)) \in allowed_extensions

DOCX == <<"d", "o", "c", "x">>
PDF == <<"p", "d", "f">>

\* "\n".join(chunks)
RECURSIVE JoinNL(_)
JoinNL(chunks) ==
    IF chunks = <<>> THEN <<>>
    ELSE IF Len(chunks) = 1 THEN chunks[1]
    ELSE chunks[1] \o <<NL>> \o JoinNL(Tail(chunks))

\* ------------------------------------------------------------ text extraction
\* A report document: opens = pdfplumber.open succeeds; a page: fails =
\* page.extract_text() raises, text = what it returns (<<>> for None or "").

\* flask_app.py: the inner loop over pdf.pages.
RECURSIVE FlaskPageLoop(_, _)
FlaskPageLoop(pages, text_chunks) ==
    IF pages = <<>> THEN text_chunks
    ELSE LET page == Head(pages) IN
         FlaskPageLoop(Tail(pages),
            IF page.fails THEN text_chunks
            ELSE IF page.text # <<>> THEN Append(text_chunks, page.text)
            ELSE text_chunks)

\* flask_app.py: the outer loop over pdf_files.
RECURSIVE FlaskDocLoop(_, _)
FlaskDocLoop(pdf_files, text_chunks) ==
    IF pdf_files = <<>> THEN text_chunks
    ELSE LET pdf == Head(pdf_files) IN
         FlaskDocLoop(Tail(pdf_files),
            IF ~pdf.opens THEN text_chunks
            ELSE FlaskPageLoop(pdf.pages, text_chunks))

extract_text_from_pdfs(pdf_files) == JoinNL(FlaskDocLoop(pdf_files, <<>>))

\* flask_app.py: what the two loops write to the log at ERROR level, str(e)
\* of each page that raises and of each document that does not open, in order.
RECURSIVE FlaskPageErrors(_)
FlaskPageErrors(pages) ==
    IF pages = <<>> THEN <<>>
    ELSE (IF Head(pages).fails THEN <<"PageError">> ELSE <<>>)
         \o FlaskPageErrors(Tail(pages))

RECURSIVE FlaskDocErrors(_)
FlaskDocErrors(pdf_files) ==
    IF pdf_files = <<>> THEN <<>>
    ELSE (IF ~Head(pdf_files).opens THEN <<"PDFSyntaxError">>
          ELSE FlaskPageErrors(Head(pdf_files).pages))
         \o FlaskDocErrors(Tail(pdf_files))

\* streamlit_app.py: pdfs_to_text has no try/except, so the first document
\* that does not open or page that raises ends the run; every other page
\* appends page_text or "".
RECURSIVE StPageLoop(_, _)
StPageLoop(pages, acc) ==
    IF acc.raised \/ pages = <<>> THEN acc
    ELSE LET page == Head(pages) IN
         StPageLoop(Tail(pages),
            IF page.fails THEN [raised |-> TRUE, chunks |-> acc.chunks]
            ELSE [raised |-> FALSE, chunks |-> Append(acc.chunks, page.text)])

RECURSIVE StDocLoop(_, _)
StDocLoop(files, acc) ==
    IF acc.raised \/ files = <<>> THEN acc
    ELSE LET pdf == Head(files) IN
         StDocLoop(Tail(files),
            IF ~pdf.opens THEN [raised |-> TRUE, chunks |-> acc.chunks]
            ELSE StPageLoop(pdf.pages, acc))

pdfs_to_text(files) ==
    LET acc == StDocLoop(files, [raised |-> FALSE, chunks |-> <<>>]) IN
    [raised |-> acc.raised, text |-> IF acc.raised THEN <<>> ELSE JoinNL(acc.chunks)]

\* ------------------------------------------------------------ json.loads
\* The decoder of Python's json module on the characters of JsonChars:
\* objects, arrays, strings without escapes, integers and null.  A value is
\* [t, v]: t its Python type, v its content.  A dict is a function from key
\* to value, built left to right so that a repeated key keeps the last value,
\* with o its keys in insertion order.
JsonChars == {"{", "}", "[", "]", "\"", ":", ",", "-", " ", NL,
              "0", "1", "2", "3", "4", "5", "6", "7", "8", "9",
              "a", "b", "c", "d", "n", "u", "l"}

JsonWS == {" ", NL}
Digits == {"0", "1", "2", "3", "4", "5", "6", "7", "8", "9"}

DigitVal(c) ==
    CASE c = "0" -> 0 [] c = "1" -> 1 [] c = "2" -> 2 [] c = "3" -> 3 [] c = "4" -> 4
      [] c = "5" -> 5 [] c = "6" -> 6 [] c = "7" -> 7 [] c = "8" -> 8 [] OTHER -> 9

JNull == [t |-> "NoneType", v |-> 0]
JInt(n) == [t |-> "int", v |-> n]
JStr(s) == [t |-> "str", v |-> s]
JList(l) == [t |-> "list", v |-> l]
JDict(f, o) == [t |-> "dict", v |-> f, o |-> o]
EmptyDict == [k \in {} |-> JNull]
JEmptyDict == JDict(EmptyDict, <<>>)

\* A decoding step: ok, the value, and the index after it.
JFail == [ok |-> FALSE, val |-> JNull, end |-> 0]
JOk(val, end) == [ok |-> TRUE, val |-> val, end |-> end]

\* WHITESPACE.match(s, i).end()
RECURSIVE WSkip(_, _)
WSkip(s, i) == IF i <= Len(s) /\ s[i] \in JsonWS THEN WSkip(s, i + 1) ELSE i

\* s[i:i+1], "" past the end
CharAt(s, i) == IF i >= 1 /\ i <= Len(s) THEN s[i] ELSE ""

\* py_scanstring from the character after the opening quote: a raw newline
\* inside a string is a control character, which strict decoding rejects.
RECURSIVE ScanString(_, _, _)
ScanString(s, i, acc) ==
    IF i > Len(s) THEN JFail
    ELSE IF s[i] = "\"" THEN JOk(JStr(acc), i + 1)
    ELSE IF s[i] = NL THEN JFail
    ELSE ScanString(s, i + 1, Append(acc, s[i]))

\* NUMBER_RE: -?(0|[1-9][0-9]*); no fraction or exponent character is in JsonChars.
RECURSIVE DigitRun(_, _, _)
DigitRun(s, i, n) ==
    IF i <= Len(s) /\ s[i] \in Digits THEN DigitRun(s, i + 1, 10 * n + DigitVal(s[i]))
    ELSE [val |-> n, end |-> i]

MatchNumber(s, i) ==
    LET neg == CharAt(s, i) = "-"
        j == IF neg THEN i + 1 ELSE i
    IN  IF CharAt(s, j) \notin Digits THEN JFail
        ELSE LET run == IF s[j] = "0" THEN [val |-> 0, end |-> j + 1]
                        ELSE DigitRun(s, j, 0)
             IN  JOk(JInt(IF neg THEN 0 - run.val ELSE run.val), run.end)

RECURSIVE ScanOnce(_, _)
RECURSIVE ObjLoop(_, _, _, _)
RECURSIVE ArrLoop(_, _, _)

\* JSONObject's loop; i is the index after the opening quote of a key.
ObjLoop(s, i, acc, order) ==
    LET key == ScanString(s, i, <<>>) IN
    IF ~key.ok THEN JFail
    ELSE LET colon == WSkip(s, key.end) IN
    IF CharAt(s, colon) # ":" THEN JFail
    ELSE LET value == ScanOnce(s, WSkip(s, colon + 1)) IN
    IF ~value.ok THEN JFail
    ELSE LET next == WSkip(s, value.end)
             pairs == (key.val.v :> value.val) @@ acc
             keys == IF key.val.v \in DOMAIN acc THEN order ELSE Append(order, key.val.v)
         IN
    IF CharAt(s, next) = "}" THEN JOk(JDict(pairs, keys), next + 1)
    ELSE IF CharAt(s, next) # "," THEN JFail
    ELSE LET quote == WSkip(s, next + 1) IN
    IF CharAt(s, quote) # "\"" THEN JFail
    ELSE ObjLoop(s, quote + 1, pairs, keys)

\* JSONObject; i is the index after "{".
JSONObject(s, i) ==
    LET j == WSkip(s, i) IN
    IF CharAt(s, j) = "}" THEN JOk(JEmptyDict, j + 1)
    ELSE IF CharAt(s, j) # "\"" THEN JFail
    ELSE ObjLoop(s, j + 1, EmptyDict, <<>>)

\* JSONArray's loop; i is the index of the next value.
ArrLoop(s, i, acc) ==
    LET value == ScanOnce(s, i) IN
    IF ~value.ok THEN JFail
    ELSE LET next == WSkip(s, value.end)
             values == Append(acc, value.val)
         IN
    IF CharAt(s, next) = "]" THEN JOk(JList(values), next + 1)
    ELSE IF CharAt(s, next) # "," THEN JFail
    ELSE ArrLoop(s, WSkip(s, next + 1), values)

\* JSONArray; i is the index after "[".
JSONArray(s, i) ==
    LET j == WSkip(s, i) IN
    IF CharAt(s, j) = "]" THEN JOk(JList(<<>>), j + 1)
    ELSE ArrLoop(s, j, <<>>)

\* scan_once
ScanOnce(s, i) ==
    LET c == CharAt(s, i) IN
    IF c = "\"" THEN ScanString(s, i + 1, <<>>)
    ELSE IF c = "{" THEN JSONObject(s, i + 1)
    ELSE IF c = "[" THEN JSONArray(s, i + 1)
    ELSE IF c = "n" /\ i + 3 <= Len(s) /\ SubSeq(s, i, i + 3) = <<"n", "u", "l", "l">>
         THEN JOk(JNull, i + 4)
    ELSE MatchNumber(s, i)

\* json.loads(s): ok = FALSE is JSONDecodeError ("Expecting value", "Extra data", ...).
json_loads(s) ==
    LET r == ScanOnce(s, WSkip(s, 1)) IN
    IF ~r.ok THEN JFail
    ELSE IF WSkip(s, r.end) # Len(s) + 1 THEN JFail
    ELSE r

\* ------------------------------------------------------------ requests
\* What one pipeline run is given: the uploaded parts, the credential, and how
\* the libraries and the LLM provider behave on them in this run.
\*   hasTemplate  a part named template is in the upload
\*   tplName      its declared file name
\*   tpl          parses: DocxTemplate reads it; vars: its placeholders;
\*                renders: render and save succeed on a mapping
\*   reports      the parts named reports, in order: filename and document
\*   api_key      the credential as typed
\*   llm          kind "raise": the completion call raises; "none": the first
\*                choice has no content; "text": it returns the text
\*   tooLarge     the payload is longer than MAX_CONTENT_LENGTH
RECURSIVE SeqsUpTo(_, _)
SeqsUpTo(S, n) ==
    IF n = 0 THEN {<<>>}
    ELSE LET shorter == SeqsUpTo(S, n - 1) IN
         shorter \cup {Append(q, x) : q \in {t \in shorter : Len(t) = n - 1}, x \in S}

\* file names
N_docx == <<"t", ".", "d", "o", "c", "x">>
N_DOCX == <<"t", ".", "D", "O", "C", "X">>
N_doc == <<"t", ".", "d", "o", "c">>
N_nodot == <<"d", "o", "c", "x">>
N_two == <<"t", ".", "p", "d", "f", ".", "d", "o", "c", "x">>
N_pdf == <<"t", ".", "p", "d", "f">>
N_PDF == <<"t", ".", "P", "d", "f">>
N_dotpdf == <<".", "p", "d", "f">>

TemplateNames == {<<>>, N_docx, N_DOCX, N_doc, N_nodot, N_two, N_pdf}
ReportNames == {<<>>, N_pdf, N_PDF, N_dotpdf, N_docx}
ApiKeys == {<<>>, <<" ">>, <<"k">>, <<" ", "k", NL>>}

\* pages and documents
PageFails == [fails |-> TRUE, text |-> <<>>]
PageOf(text) == [fails |-> FALSE, text |-> text]
PageKinds == {PageFails, PageOf(<<>>), PageOf(<<" ">>), PageOf(<<"a">>)}
CorruptDoc == [opens |-> FALSE, pages |-> <<>>]
DocOf(pages) == [opens |-> TRUE, pages |-> pages]
DocsUpTo(n) == {CorruptDoc} \cup {DocOf(p) : p \in SeqsUpTo(PageKinds, n)}

\* Report documents in order: at most n documents, at most p pages in all.
RECURSIVE DocSeqs(_, _)
DocSeqs(n, p) ==
    IF n = 0 THEN {<<>>}
    ELSE {<<>>} \cup UNION {{<<d>> \o rest : rest \in DocSeqs(n - 1, p - Len(d.pages))}
                            : d \in DocsUpTo(p)}

GoodDoc == DocOf(<<PageOf(<<"a">>)>>)
Part(name, doc) == [filename |-> name, doc |-> doc]

\* templates
GoodTpl == [parses |-> TRUE, vars |-> <<"claim_number", "date">>, renders |-> TRUE]
CorruptTpl == [parses |-> FALSE, vars |-> <<>>, renders |-> FALSE]
BadMarkupTpl == [parses |-> TRUE, vars |-> <<"claim_number">>, renders |-> FALSE]
Templates == {GoodTpl, CorruptTpl, BadMarkupTpl}

\* LLM behaviours
LLMRaise == [kind |-> "raise", text |-> <<>>]
LLMNone == [kind |-> "none", text |-> <<>>]
LLMText(text) == [kind |-> "text", text |-> text]

R_obj == <<"{", "\"", "a", "\"", ":", "\"", "1", "\"", "}">>
R_obj2 == <<"{", "\"", "a", "\"", ":", "\"", "1", "\"", ",", " ", "\"", "d", "\"", ":", "\"", "\"", "}", NL>>
R_emptyobj == <<"{", "}">>
R_trailing == <<"{", "\"", "a", "\"", ":", "\"", "1", "\"", ",", "}">>
R_unquoted == <<"{", "a", ":", "\"", "1", "\"", "}">>
R_prose == <<"a", " ", "{", "}">>
R_empty == <<>>
R_null == <<"n", "u", "l", "l">>
R_num == <<"1", "2">>
R_str == <<"\"", "a", "b", "\"">>
R_emptystr == <<"\"", "\"">>
R_arr == <<"[", "1", ",", "2", "]">>
R_emptyarr == <<"[", "]">>
R_pairs == <<"[", "[", "\"", "a", "\"", ",", "1", "]", "]">>
R_numpair == <<"[", "[", "1", ",", "2", "]", "]">>
R_dictpair == <<"[", "{", "\"", "a", "\"", ":", "1", ",", "\"", "b", "\"", ":", "2", "}", "]">>
R_strpair == <<"[", "\"", "a", "b", "\"", "]">>

Responses == {R_obj, R_obj2, R_emptyobj, R_trailing, R_unquoted, R_prose, R_empty,
              R_null, R_num, R_str, R_emptystr, R_arr, R_emptyarr, R_pairs, R_numpair,
              R_dictpair, R_strpair}
LLMs == {LLMRaise, LLMNone} \cup {LLMText(t) : t \in Responses}
GoodLLM == LLMText(R_obj2)

Request(hasTemplate, tplName, tpl, reports, api_key, llm) ==
    [hasTemplate |-> hasTemplate, tplName |-> tplName, tpl |-> tpl,
     reports |-> reports, api_key |-> api_key, llm |-> llm, tooLarge |-> FALSE]

Oversized(q) == [q EXCEPT !.tooLarge = TRUE]

\* Requests that vary the parts and the credential, the content being good.
ValidationRequests ==
    {Request(n # <<"-">>, IF n = <<"-">> THEN <<>> ELSE n, GoodTpl,
             [i \in DOMAIN names |-> Part(names[i], GoodDoc)], k, GoodLLM) :
        n \in TemplateNames \cup {<<"-">>},
        names \in SeqsUpTo(ReportNames, MaxReports),
        k \in ApiKeys}

\* Requests that vary the report documents, the rest being good.
ExtractionRequests ==
    {Request(TRUE, N_docx, GoodTpl, [i \in DOMAIN docs |-> Part(N_pdf, docs[i])],
             <<"k">>, GoodLLM) :
        docs \in DocSeqs(MaxReports, MaxPages) \ {<<>>}}

\* Requests that vary the template and the provider, the rest being good.
ProviderRequests ==
    {Request(TRUE, N_docx, tpl, <<Part(N_pdf, GoodDoc)>>, <<"k">>, llm) :
        tpl \in Templates, llm \in LLMs}

\* Requests over the payload limit, with and without valid parts.
OversizedRequests ==
    {Oversized(Request(n # <<"-">>, IF n = <<"-">> THEN <<>> ELSE n, GoodTpl,
                       [i \in DOMAIN names |-> Part(names[i], GoodDoc)], k, GoodLLM)) :
        n \in {N_docx, N_doc, <<"-">>},
        names \in SeqsUpTo({N_pdf}, 1),
        k \in {<<>>, <<"k">>}}

Requests == ValidationRequests \cup ExtractionRequests \cup ProviderRequests
            \cup OversizedRequests

\* ------------------------------------------------------------ state
VARIABLES
    fe,        \* run -> "flask" (POST /process) or "streamlit" (the form's script run)
    req,       \* run -> what the run was given
    pc,        \* run -> "start", "template", "extract", "llm", "await" (the completion
               \*        call sent, its response pending), "parse", "render", "done"
    local,     \* run -> the handler's local variables
    llmCalls,  \* run -> the completion calls made, each with the key and prompt sent
    rendered,  \* run -> the contexts passed to template.render
    output,    \* run -> the documents handed to the user
    result,    \* run -> how the run ended
    log        \* run -> the exception texts written to the server log

vars == <<fe, req, pc, local, llmCalls, rendered, output, result, log>>

Runs == DOMAIN pc

NoResponse == [none |-> TRUE, text |-> <<>>]
\* assigned: the names among them that have been assigned so far.
NoLocal ==
    [assigned |-> {}, api_key |-> <<>>, placeholders |-> <<>>, extracted_text |-> <<>>,
     prompt |-> [instructions |-> "", placeholders |-> <<>>, text |-> <<>>],
     llm_response |-> NoResponse, context |-> JNull]

Pending == [outcome |-> "pending", status |-> 0, error |-> "", detail |-> "", stage |-> ""]

\* jsonify({'error': message}), status
ErrorResponse(status, message, detail, stage) ==
    [outcome |-> "error", status |-> status, error |-> message, detail |-> detail,
     stage |-> stage]

\* The handler's except clause: the message carries str(e).
ProcessingFailed(e, stage) == ErrorResponse(500, "Processing failed: ", e, stage)

\* send_file(output_buffer, ...)
Sent == [outcome |-> "delivered", status |-> 200, error |-> "", detail |-> "", stage |-> ""]

\* Streamlit: the button stays disabled, st.error + st.stop, an uncaught
\* exception shown by the script runner, st.download_button.
StDisabled == [outcome |-> "disabled", status |-> 0, error |-> "", detail |-> "",
               stage |-> "validation"]
StError(message, stage) ==
    [outcome |-> "error", status |-> 0, error |-> message, detail |-> "", stage |-> stage]
StException(e, stage) ==
    [outcome |-> "exception", status |-> 0, error |-> "", detail |-> e, stage |-> stage]
StDownload == [outcome |-> "delivered", status |-> 0, error |-> "", detail |-> "", stage |-> ""]

Finish(r, res) ==
    /\ pc' = [pc EXCEPT ![r] = "done"]
    /\ result' = [result EXCEPT ![r] = res]

Goto(r, where) ==
    /\ pc' = [pc EXCEPT ![r] = where]
    /\ result' = result

\* ------------------------------------------------------------ shared steps
\* f"{placeholders}" and the report text in one prompt; the fixed instruction
\* text of each front end is named, not spelled out.
BuildPrompt(frontend, placeholders, text) ==
    [instructions |-> frontend, placeholders |-> placeholders, text |-> text]

\* client.chat.completions.create with the key the client was built with
Call(api_key, prompt) == [api_key |-> api_key, prompt |-> prompt]

\* template.render(context) binds dict(context) and passes the mapping on as
\* keyword names.  dict() takes a dict as it is and an empty string as no
\* pair; from a list it takes one (key, value) per item, an item being what
\* iterates to exactly two elements with the first hashable: a two-element
\* list, a two-character string, a dict of two keys (iterating its keys).
IsPair(x) ==
    \/ x.t = "list" /\ Len(x.v) = 2 /\ x.v[1].t \notin {"list", "dict"}
    \/ x.t = "str" /\ Len(x.v) = 2
    \/ x.t = "dict" /\ Len(x.o) = 2

\* The (key, value) a pair item iterates to.
PairOf(x) ==
    IF x.t = "list" THEN [key |-> x.v[1], value |-> x.v[2]]
    ELSE IF x.t = "str" THEN [key |-> JStr(<<x.v[1]>>), value |-> JStr(<<x.v[2]>>)]
    ELSE [key |-> JStr(x.o[1]), value |-> JStr(x.o[2])]

\* dict(context) succeeds and every key is a string; a key of another type
\* raises TypeError when the mapping is passed as keywords.
Bindable(context) ==
    \/ context.t = "dict"
    \/ /\ context.t = "list"
       /\ \A i \in 1..Len(context.v) :
             IsPair(context.v[i]) /\ PairOf(context.v[i]).key.t = "str"
    \/ context.t = "str" /\ context.v = <<>>

\* dict(items): a repeated key keeps its place and takes the last value.
RECURSIVE BindLoop(_, _, _)
BindLoop(items, acc, order) ==
    IF items = <<>> THEN JDict(acc, order)
    ELSE LET pair == PairOf(Head(items)) IN
         BindLoop(Tail(items), (pair.key.v :> pair.value) @@ acc,
                  IF pair.key.v \in DOMAIN acc THEN order ELSE Append(order, pair.key.v))

\* The mapping bound to the template, for a context that is Bindable.
Binding(context) ==
    IF context.t = "dict" THEN context
    ELSE IF context.t = "list" THEN BindLoop(context.v, EmptyDict, <<>>)
    ELSE JEmptyDict

RenderOK(tpl, context) == Bindable(context) /\ tpl.renders

Document(tpl, context) == [template |-> tpl, context |-> Binding(context)]

\* len(x) raises TypeError for None and for a number
HasLen(x) == x.t \in {"str", "list", "dict"}

\* ------------------------------------------------------------ POST /process
\* Variant: the template's type is not checked.
ValidationError_AnyTemplateType(q) ==
    IF ~q.hasTemplate THEN "No template file provided"
    ELSE IF q.reports = <<>> THEN "No report files provided"
    ELSE IF q.tplName = <<>> THEN "No template file selected"
    ELSE IF \A i \in 1..Len(q.reports) : q.reports[i].filename = <<>>
         THEN "No report files selected"
    ELSE IF Strip(q.api_key) = <<>> THEN "API key is required"
    ELSE IF \E i \in 1..Len(q.reports) : ~allowed_file(q.reports[i].filename, {PDF})
         THEN "All report files must be .pdf files"
    ELSE ""

\* The checks of the handler in their order; "" when all pass.
ValidationError(q) ==
    IF ~q.hasTemplate THEN "No template file provided"
    ELSE IF q.reports = <<>> THEN "No report files provided"
    ELSE IF q.tplName = <<>> THEN "No template file selected"
    ELSE IF \A i \in 1..Len(q.reports) : q.reports[i].filename = <<>>
         THEN "No report files selected"
    ELSE IF Strip(q.api_key) = <<>> THEN "API key is required"
    ELSE IF ~allowed_file(q.tplName, {DOCX}) THEN "Template must be a .docx file"
    ELSE IF \E i \in 1..Len(q.reports) : ~allowed_file(q.reports[i].filename, {PDF})
         THEN "All report files must be .pdf files"
    ELSE ""

\* The checks that return before api_key is assigned.
PartMissing == {"No template file provided", "No report files provided"}

\* The first read of request.files parses the body, which raises
\* RequestEntityTooLarge inside the handler's try for a payload over the
\* limit; the two checks for the parts; api_key assigned; the other checks.
FlaskValidate(r) ==
    /\ fe[r] = "flask" /\ pc[r] = "start"
    /\ LET reason == ValidationError(req[r])
           bound == [local EXCEPT ![r].api_key = Strip(req[r].api_key),
                                  ![r].assigned = @ \cup {"api_key"}]
       IN  IF req[r].tooLarge
           THEN /\ Finish(r, ProcessingFailed("413 Request Entity Too Large", "transport"))
                /\ log' = [log EXCEPT ![r] = Append(@, "413 Request Entity Too Large")]
                /\ local' = local
           ELSE IF reason \in PartMissing
           THEN /\ Finish(r, ErrorResponse(400, reason, "", "validation"))
                /\ local' = local
                /\ log' = log
           ELSE IF reason # ""
           THEN /\ Finish(r, ErrorResponse(400, reason, "", "validation"))
                /\ local' = bound
                /\ log' = log
           ELSE /\ Goto(r, "template")
                /\ local' = bound
                /\ log' = log
    /\ UNCHANGED <<fe, req, llmCalls, rendered, output>>

\* template_file.read(), DocxTemplate, get_undeclared_template_variables
FlaskLoadTemplate(r) ==
    /\ fe[r] = "flask" /\ pc[r] = "template"
    /\ IF ~req[r].tpl.parses
       THEN /\ Finish(r, ProcessingFailed("BadZipFile", "template"))
            /\ log' = [log EXCEPT ![r] = Append(@, "BadZipFile")]
            /\ local' = local
       ELSE /\ Goto(r, "extract")
            /\ local' = [local EXCEPT ![r].placeholders = req[r].tpl.vars,
                                       ![r].assigned = @ \cup {"placeholders"}]
            /\ log' = log
    /\ UNCHANGED <<fe, req, llmCalls, rendered, output>>

\* Variant: no extractable text answered as a server fault.
FlaskExtract_ServerFault(r) ==
    /\ fe[r] = "flask" /\ pc[r] = "extract"
    /\ LET pdf_streams == [i \in 1..Len(req[r].reports) |-> req[r].reports[i].doc]
           extracted_text == extract_text_from_pdfs(pdf_streams)
       IN  /\ log' = [log EXCEPT ![r] = @ \o FlaskDocErrors(pdf_streams)]
           /\ IF Strip(extracted_text) = <<>>
              THEN /\ Finish(r, ErrorResponse(500,
                           "No text could be extracted from the PDF files", "", "extraction"))
                   /\ local' = [local EXCEPT ![r].extracted_text = extracted_text,
                                              ![r].assigned = @ \cup {"extracted_text"}]
              ELSE /\ Goto(r, "llm")
                   /\ local' = [local EXCEPT
                           ![r].assigned = @ \cup {"extracted_text", "prompt"},
                           ![r].extracted_text = extracted_text,
                           ![r].prompt = BuildPrompt("flask", local[r].placeholders,
                                                     extracted_text)]
    /\ UNCHANGED <<fe, req, llmCalls, rendered, output>>

\* The streams of all report parts, extract_text_from_pdfs, the emptiness
\* check and the prompt.
FlaskExtract(r) ==
    /\ fe[r] = "flask" /\ pc[r] = "extract"
    /\ LET pdf_streams == [i \in 1..Len(req[r].reports) |-> req[r].reports[i].doc]
           extracted_text == extract_text_from_pdfs(pdf_streams)
       IN  /\ log' = [log EXCEPT ![r] = @ \o FlaskDocErrors(pdf_streams)]
           /\ IF Strip(extracted_text) = <<>>
              THEN /\ Finish(r, ErrorResponse(400,
                           "No text could be extracted from the PDF files", "", "extraction"))
                   /\ local' = [local EXCEPT ![r].extracted_text = extracted_text,
                                              ![r].assigned = @ \cup {"extracted_text"}]
              ELSE /\ Goto(r, "llm")
                   /\ local' = [local EXCEPT
                           ![r].assigned = @ \cup {"extracted_text", "prompt"},
                           ![r].extracted_text = extracted_text,
                           ![r].prompt = BuildPrompt("flask", local[r].placeholders,
                                                     extracted_text)]
    /\ UNCHANGED <<fe, req, llmCalls, rendered, output>>

\* call_llm_api up to the wait: the client is built with api_key and the
\* one completions.create request is sent; the thread then waits for the
\* provider while other requests are served.
FlaskCallLLM(r) ==
    /\ fe[r] = "flask" /\ pc[r] = "llm"
    /\ llmCalls' = [llmCalls EXCEPT ![r] = Append(@, Call(local[r].api_key, local[r].prompt))]
    /\ Goto(r, "await")
    /\ UNCHANGED <<fe, req, local, rendered, output, log>>

\* Variant: a failed completion call is tried once more.
FlaskLLMResponse_Retry(r) ==
    /\ fe[r] = "flask" /\ pc[r] = "await"
    /\ LET llm == req[r].llm IN
       IF llm.kind = "raise" /\ Len(llmCalls[r]) = 1
       THEN /\ Goto(r, "llm")
            /\ log' = [log EXCEPT ![r] = Append(@, "APIError")]
            /\ local' = local
       ELSE IF llm.kind # "text"
       THEN /\ Finish(r, ProcessingFailed("APIError", "llm"))
            /\ log' = [log EXCEPT ![r] = @ \o <<"APIError", "APIError">>]
            /\ local' = local
       ELSE /\ Goto(r, "parse")
            /\ local' = [local EXCEPT ![r].llm_response = [none |-> FALSE, text |-> llm.text],
                                       ![r].assigned = @ \cup {"llm_response"}]
            /\ log' = log
    /\ UNCHANGED <<fe, req, llmCalls, rendered, output>>

\* call_llm_api after the wait: the call raised, or the content is read and
\* len(result) raises when it is None; any exception is logged and raised
\* again, and the handler's except clause logs it and answers 500.
FlaskLLMResponse(r) ==
    /\ fe[r] = "flask" /\ pc[r] = "await"
    /\ LET llm == req[r].llm IN
       IF llm.kind = "raise"
       THEN /\ Finish(r, ProcessingFailed("APIError", "llm"))
            /\ log' = [log EXCEPT ![r] = @ \o <<"APIError", "APIError">>]
            /\ local' = local
       ELSE IF llm.kind = "none"
       THEN /\ Finish(r, ProcessingFailed("object of type 'NoneType' has no len()", "llm"))
            /\ log' = [log EXCEPT ![r] = @ \o <<"object of type 'NoneType' has no len()",
                                                  "object of type 'NoneType' has no len()">>]
            /\ local' = local
       ELSE /\ Goto(r, "parse")
            /\ local' = [local EXCEPT ![r].llm_response = [none |-> FALSE, text |-> llm.text],
                                       ![r].assigned = @ \cup {"llm_response"}]
            /\ log' = log
    /\ UNCHANGED <<fe, req, llmCalls, rendered, output>>

\* Variant: a response that does not decode is rendered as an empty mapping.
FlaskParse_RenderAnyway(r) ==
    /\ fe[r] = "flask" /\ pc[r] = "parse"
    /\ LET parsed == json_loads(local[r].llm_response.text)
           context == IF parsed.ok THEN parsed.val ELSE JEmptyDict
       IN  /\ Goto(r, "render")
           /\ local' = [local EXCEPT ![r].context = context,
                                      ![r].assigned = @ \cup {"context"}]
    /\ UNCHANGED <<fe, req, llmCalls, rendered, output, log>>

\* json.loads under except JSONDecodeError, with len(context) inside the try.
FlaskParse(r) ==
    /\ fe[r] = "flask" /\ pc[r] = "parse"
    /\ LET parsed == json_loads(local[r].llm_response.text) IN
       IF ~parsed.ok
       THEN /\ Finish(r, ErrorResponse(500,
                    "AI response was not valid JSON. Please try again.", "", "parse"))
            /\ log' = [log EXCEPT ![r] = Append(@, "JSONDecodeError")]
            /\ local' = local
       ELSE IF ~HasLen(parsed.val)
       THEN /\ Finish(r, ProcessingFailed("object has no len()", "parse"))
            /\ log' = [log EXCEPT ![r] = Append(@, "object has no len()")]
            /\ local' = [local EXCEPT ![r].context = parsed.val,
                                       ![r].assigned = @ \cup {"context"}]
       ELSE /\ Goto(r, "render")
            /\ local' = [local EXCEPT ![r].context = parsed.val,
                                       ![r].assigned = @ \cup {"context"}]
            /\ log' = log
    /\ UNCHANGED <<fe, req, llmCalls, rendered, output>>

\* template.render(context), template.save, send_file
FlaskRender(r) ==
    /\ fe[r] = "flask" /\ pc[r] = "render"
    /\ rendered' = [rendered EXCEPT ![r] = Append(@, local[r].context)]
    /\ IF ~RenderOK(req[r].tpl, local[r].context)
       THEN /\ Finish(r, ProcessingFailed("render failed", "render"))
            /\ log' = [log EXCEPT ![r] = Append(@, "render failed")]
            /\ output' = output
       ELSE /\ Finish(r, Sent)
            /\ output' = [output EXCEPT ![r] = Append(@, Document(req[r].tpl, local[r].context))]
            /\ log' = log
    /\ UNCHANGED <<fe, req, local, llmCalls>>

\* ------------------------------------------------------------ the interactive form
\* st.file_uploader(type=...) holds only files of the declared type.
FileUploaderAccepts(name, type) == HasDot(name) /\ Lower(RSplitExt(name)) = type

RECURSIVE UploadedPdfs(_)
UploadedPdfs(reports) ==
    IF reports = <<>> THEN <<>>
    ELSE IF FileUploaderAccepts(Head(reports).filename, PDF)
         THEN <<Head(reports).doc>> \o UploadedPdfs(Tail(reports))
         ELSE UploadedPdfs(Tail(reports))

\* run_btn: disabled = not (template_file and pdf_files and api_key)
RunEnabled(q) ==
    /\ q.hasTemplate /\ FileUploaderAccepts(q.tplName, DOCX)
    /\ UploadedPdfs(q.reports) # <<>>
    /\ q.api_key # <<>>

\* Variant: one api_key for the whole process, holding what the latest
\* session wrote.
ProcessWideApiKey(r) ==
    LET wrote == {q \in Runs : fe[q] = "streamlit" /\ "api_key" \in local[q].assigned}
        latest == CHOOSE q \in wrote : \A o \in wrote : o <= q
    IN  local[latest].api_key

\* The script's global api_key, as call_llm reads it in this session.
SessionApiKey(r) == local[r].api_key

StGate(r) ==
    /\ fe[r] = "streamlit" /\ pc[r] = "start"
    /\ local' = [local EXCEPT ![r].api_key = req[r].api_key,
                               ![r].assigned = @ \cup {"api_key"}]
    /\ IF RunEnabled(req[r]) THEN Goto(r, "template") ELSE Finish(r, StDisabled)
    /\ UNCHANGED <<fe, req, llmCalls, rendered, output, log>>

StLoadTemplate(r) ==
    /\ fe[r] = "streamlit" /\ pc[r] = "template"
    /\ IF ~req[r].tpl.parses
       THEN /\ Finish(r, StException("BadZipFile", "template"))
            /\ local' = local
       ELSE /\ Goto(r, "extract")
            /\ local' = [local EXCEPT ![r].placeholders = req[r].tpl.vars,
                                       ![r].assigned = @ \cup {"placeholders"}]
    /\ UNCHANGED <<fe, req, llmCalls, rendered, output, log>>

\* raw_txt = pdfs_to_text(pdf_files), then the prompt; no check of raw_txt.
StExtract(r) ==
    /\ fe[r] = "streamlit" /\ pc[r] = "extract"
    /\ LET got == pdfs_to_text(UploadedPdfs(req[r].reports)) IN
       IF got.raised
       THEN /\ Finish(r, StException("PDFSyntaxError", "extraction"))
            /\ local' = local
       ELSE /\ Goto(r, "llm")
            /\ local' = [local EXCEPT
                    ![r].assigned = @ \cup {"extracted_text", "prompt"},
                    ![r].extracted_text = got.text,
                    ![r].prompt = BuildPrompt("streamlit", local[r].placeholders, got.text)]
    /\ UNCHANGED <<fe, req, llmCalls, rendered, output, log>>

\* call_llm up to the wait: the client is built with the script's api_key
\* and the one completions.create request is sent.
StCallLLM(r) ==
    /\ fe[r] = "streamlit" /\ pc[r] = "llm"
    /\ llmCalls' = [llmCalls EXCEPT ![r] = Append(@, Call(SessionApiKey(r), local[r].prompt))]
    /\ Goto(r, "await")
    /\ UNCHANGED <<fe, req, local, rendered, output, log>>

\* call_llm after the wait: the call raised, which nothing catches, or the
\* content is returned as it is.
StLLMResponse(r) ==
    /\ fe[r] = "streamlit" /\ pc[r] = "await"
    /\ LET llm == req[r].llm IN
       IF llm.kind = "raise"
       THEN /\ Finish(r, StException("APIError", "llm"))
            /\ local' = local
       ELSE /\ Goto(r, "parse")
            /\ local' = [local EXCEPT ![r].llm_response =
                                            [none |-> llm.kind = "none", text |-> llm.text],
                                       ![r].assigned = @ \cup {"llm_response"}]
    /\ UNCHANGED <<fe, req, llmCalls, rendered, output, log>>

\* json.loads under except JSONDecodeError: st.error and st.stop; json.loads(None)
\* raises TypeError, which nothing catches.
StParse(r) ==
    /\ fe[r] = "streamlit" /\ pc[r] = "parse"
    /\ IF local[r].llm_response.none
       THEN /\ Finish(r, StException("the JSON object must be str, bytes or bytearray", "parse"))
            /\ local' = local
       ELSE LET parsed == json_loads(local[r].llm_response.text) IN
            IF ~parsed.ok
            THEN /\ Finish(r, StError("LLM response was not valid JSON. Please retry.", "parse"))
                 /\ local' = local
            ELSE /\ Goto(r, "render")
                 /\ local' = [local EXCEPT ![r].context = parsed.val,
                                            ![r].assigned = @ \cup {"context"}]
    /\ UNCHANGED <<fe, req, llmCalls, rendered, output, log>>

\* tpl.render(context), tpl.save, st.download_button
StRender(r) ==
    /\ fe[r] = "streamlit" /\ pc[r] = "render"
    /\ rendered' = [rendered EXCEPT ![r] = Append(@, local[r].context)]
    /\ IF ~RenderOK(req[r].tpl, local[r].context)
       THEN /\ Finish(r, StException("render failed", "render"))
            /\ output' = output
       ELSE /\ Finish(r, StDownload)
            /\ output' = [output EXCEPT ![r] = Append(@, Document(req[r].tpl, local[r].context))]
    /\ UNCHANGED <<fe, req, local, llmCalls, log>>

\* ------------------------------------------------------------ specifications
FrontEnds == {"flask", "streamlit"}

Start(kinds, requests) ==
    /\ fe = kinds
    /\ req = requests
    /\ pc = [r \in DOMAIN kinds |-> "start"]
    /\ local = [r \in DOMAIN kinds |-> NoLocal]
    /\ llmCalls = [r \in DOMAIN kinds |-> <<>>]
    /\ rendered = [r \in DOMAIN kinds |-> <<>>]
    /\ output = [r \in DOMAIN kinds |-> <<>>]
    /\ result = [r \in DOMAIN kinds |-> Pending]
    /\ log = [r \in DOMAIN kinds |-> <<>>]

\* One run of either front end on any request.
Init ==
    \E k \in FrontEnds, q \in Requests :
        Start([r \in {1} |-> k], [r \in {1} |-> q])

\* The same request given to both front ends.
InitPair ==
    \E q \in Requests :
        Start([r \in {1, 2} |-> IF r = 1 THEN "flask" ELSE "streamlit"],
              [r \in {1, 2} |-> q])

\* Concurrent runs, the values of run r marked with r's digit.
RunTag(r) == <<"1", "2", "3", "4">>[r]

RunResponse(r) == <<"{", "\"", "a", "\"", ":", "\"", RunTag(r), "\"", "}">>

RunRequests(r) ==
    {Request(TRUE, N_docx,
             [parses |-> TRUE, vars |-> <<RunTag(r)>>, renders |-> TRUE],
             <<Part(N_pdf, DocOf(<<page>>))>>, <<"k", RunTag(r)>>, llm) :
        page \in {PageOf(<<RunTag(r)>>), PageOf(<<>>)},
        llm \in {LLMText(RunResponse(r)), LLMText(R_trailing), LLMRaise}}

InitConc ==
    \E kinds \in [1..NumRuns -> FrontEnds] :
        \E requests \in [1..NumRuns -> UNION {RunRequests(r) : r \in 1..NumRuns}] :
            /\ \A r \in 1..NumRuns : requests[r] \in RunRequests(r)
            /\ Start(kinds, requests)

Next ==
    \/ \E r \in Runs : FlaskValidate(r)
    \/ \E r \in Runs : FlaskLoadTemplate(r)
    \/ \E r \in Runs : FlaskExtract(r)
    \/ \E r \in Runs : FlaskCallLLM(r)
    \/ \E r \in Runs : FlaskLLMResponse(r)
    \/ \E r \in Runs : FlaskParse(r)
    \/ \E r \in Runs : FlaskRender(r)
    \/ \E r \in Runs : StGate(r)
    \/ \E r \in Runs : StLoadTemplate(r)
    \/ \E r \in Runs : StExtract(r)
    \/ \E r \in Runs : StCallLLM(r)
    \/ \E r \in Runs : StLLMResponse(r)
    \/ \E r \in Runs : StParse(r)
    \/ \E r \in Runs : StRender(r)

Spec == Init /\ [][Next]_vars
SpecPair == InitPair /\ [][Next]_vars
SpecConc == InitConc /\ [][Next]_vars

\* ------------------------------------------------------------ claims
Done(r) == pc[r] = "done"
Failed(r) == Done(r) /\ result[r].outcome # "delivered"
Blank(text) == \A i \in 1..Len(text) : text[i] \in {" ", NL}
Has(r, name) == name \in local[r].assigned

\* The name ends in a dot followed by ext, in any letter case.
HasExt(name, ext) ==
    \E i \in 1..Len(name) : name[i] = "." /\ Lower(SubSeq(name, i + 1, Len(name))) = ext

PartsValid(q) ==
    /\ q.hasTemplate /\ q.tplName # <<>> /\ HasExt(q.tplName, DOCX)
    /\ Len(q.reports) >= 1
    /\ \A i \in 1..Len(q.reports) :
          q.reports[i].filename # <<>> /\ HasExt(q.reports[i].filename, PDF)

\* No page of any report that opens yields anything but whitespace.
NoUsableText(q) ==
    \A i \in 1..Len(q.reports) :
        q.reports[i].doc.opens =>
            \A j \in 1..Len(q.reports[i].doc.pages) :
                LET page == q.reports[i].doc.pages[j] IN page.fails \/ Blank(page.text)

FormatMessages == {"AI response was not valid JSON. Please try again.",
                   "LLM response was not valid JSON. Please retry."}

FormatError(r) ==
    /\ result[r].outcome = "error"
    /\ result[r].error \in FormatMessages
    /\ fe[r] = "flask" => result[r].status = 500

\* The documents given to the front end's extractor.
ExtractorInput(r) ==
    IF fe[r] = "flask" THEN [i \in 1..Len(req[r].reports) |-> req[r].reports[i].doc]
    ELSE UploadedPdfs(req[r].reports)

YieldsText(page) == ~page.fails /\ page.text # <<>>
TextOf(pages) == [j \in 1..Len(pages) |-> pages[j].text]

RECURSIVE YieldedTexts(_)
YieldedTexts(docs) ==
    IF docs = <<>> THEN <<>>
    ELSE (IF Head(docs).opens THEN TextOf(SelectSeq(Head(docs).pages, YieldsText)) ELSE <<>>)
         \o YieldedTexts(Tail(docs))

\* C1: in every run, once the extracted text is empty or only whitespace, no
\* LLM call is made and the run ends in an extraction error.
C1_NoCallOnBlankText ==
    \A r \in Runs :
        Has(r, "extracted_text") /\ Blank(local[r].extracted_text) =>
            /\ llmCalls[r] = <<>>
            /\ Done(r) => result[r].outcome = "error" /\ result[r].stage = "extraction"

\* Nothing after validation has run: no file content read, no template
\* parsed, no text extracted, no call made, nothing rendered or delivered.
NothingDownstream(r) ==
    /\ local[r].assigned \subseteq {"api_key"}
    /\ llmCalls[r] = <<>> /\ rendered[r] = <<>> /\ output[r] = <<>>

\* C2 as stated: a /process request received within the payload limit passes
\* validation exactly when the parts are valid and the credential is a
\* non-empty string; otherwise it is answered 400 with a reason and nothing
\* downstream has run.
C2_Original ==
    \A r \in Runs :
        fe[r] = "flask" /\ ~req[r].tooLarge /\ pc[r] # "start" =>
            IF PartsValid(req[r]) /\ req[r].api_key # <<>>
            THEN ~(Done(r) /\ result[r].stage = "validation")
            ELSE /\ Done(r) /\ result[r].status = 400 /\ result[r].error # ""
                 /\ NothingDownstream(r)

\* C2 amended: a /process request received within the payload limit passes
\* validation exactly when the parts are valid and the credential holds a
\* character that is not whitespace; otherwise it is answered 400 with a reason
\* and nothing downstream has run.
C2_ValidationGate ==
    \A r \in Runs :
        fe[r] = "flask" /\ ~req[r].tooLarge /\ pc[r] # "start" =>
            IF PartsValid(req[r]) /\ ~Blank(req[r].api_key)
            THEN ~(Done(r) /\ result[r].stage = "validation")
            ELSE /\ Done(r) /\ result[r].status = 400 /\ result[r].error # ""
                 /\ NothingDownstream(r)

\* A request with valid parts and a credential of one space has been rejected.
C2_Witness ==
    \E r \in Runs :
        /\ fe[r] = "flask" /\ Done(r) /\ result[r].status = 400
        /\ ~req[r].tooLarge /\ PartsValid(req[r]) /\ req[r].api_key = <<" ">>
        /\ NothingDownstream(r) /\ Has(r, "api_key")

\* C3: in every run, when the LLM's response text does not decode as JSON, the
\* template is never rendered, no document is delivered, and the run ends with
\* the not-valid-JSON error (status 500 on /process).
C3_InvalidJsonStops ==
    \A r \in Runs :
        /\ Has(r, "llm_response") /\ ~local[r].llm_response.none
        /\ ~json_loads(local[r].llm_response.text).ok
        => /\ rendered[r] = <<>>
           /\ output[r] = <<>>
           /\ Done(r) => FormatError(r) /\ result[r].stage = "parse"

\* A /process run whose response had a trailing comma has ended with the error.
C3_Witness ==
    \E r \in Runs :
        /\ fe[r] = "flask" /\ Done(r) /\ FormatError(r)
        /\ local[r].llm_response.text = R_trailing

\* C4: every run makes at most one completion call, whatever fails.
C4_SingleCall == \A r \in Runs : Len(llmCalls[r]) <= 1

\* A run whose one completion call raised has ended in failure.
C4_Witness ==
    \E r \in Runs :
        /\ fe[r] = "flask" /\ Failed(r) /\ req[r].llm.kind = "raise"
        /\ Len(llmCalls[r]) = 1

\* The inputs the handler received fail validation; the inputs of a payload
\* over the limit are never received.
InputsInvalid(q) == ~q.tooLarge /\ ~(PartsValid(q) /\ ~Blank(q.api_key))

\* C5 as stated: a failed /process request is answered {"error": message}, with
\* 400 exactly when the inputs fail validation and 500 for every other
\* failure, no extractable text included.
C5_Original ==
    \A r \in Runs :
        fe[r] = "flask" /\ Failed(r) =>
            /\ result[r].outcome = "error" /\ result[r].error # ""
            /\ result[r].status = IF InputsInvalid(req[r]) THEN 400 ELSE 500

\* C5 amended: a failed /process request is answered {"error": message}, with
\* 400 exactly when the inputs fail validation or the reports of a readable
\* template yield no text, and 500 for every other failure.
C5_StatusOfFailure ==
    \A r \in Runs :
        fe[r] = "flask" /\ Failed(r) =>
            /\ result[r].outcome = "error" /\ result[r].error # ""
            /\ result[r].status =
                 IF InputsInvalid(req[r]) THEN 400
                 ELSE IF ~req[r].tooLarge /\ req[r].tpl.parses /\ NoUsableText(req[r])
                      THEN 400
                 ELSE 500

\* A valid request whose reports yield no text has been answered 400.
C5_Witness ==
    \E r \in Runs :
        /\ fe[r] = "flask" /\ Failed(r) /\ result[r].status = 400
        /\ ~InputsInvalid(req[r]) /\ ~req[r].tooLarge /\ NoUsableText(req[r])

\* C6: when a library or internal step of /process fails, the message answered
\* carries nothing of the exception, whose text is in the server log only.
C6_GenericMessage ==
    \A r \in Runs :
        fe[r] = "flask" /\ Failed(r) /\ result[r].stage \in {"template", "llm", "render"} =>
            /\ result[r].detail = ""
            /\ log[r] # <<>>

\* C7: given the same request, the two front ends fail at the same stage, or
\* both deliver having extracted the same text and bound the same mapping.
C7_SameOutcome ==
    Done(1) /\ Done(2) =>
        /\ Failed(1) <=> Failed(2)
        /\ result[1].stage = result[2].stage
        /\ ~Failed(1) /\ ~Failed(2) =>
              /\ local[1].extracted_text = local[2].extracted_text
              /\ rendered[1] = rendered[2]

\* C8: with concurrent runs whose inputs are marked by the run, everything a
\* run computes, sends and returns carries its own mark only.
OwnContext(r) == JDict(<<"a">> :> JStr(<<RunTag(r)>>), << <<"a">> >>)

C8_NoLeak ==
    \A r \in Runs :
        /\ Has(r, "api_key") => local[r].api_key = <<"k", RunTag(r)>>
        /\ Has(r, "placeholders") => local[r].placeholders = <<RunTag(r)>>
        /\ Has(r, "extracted_text") => local[r].extracted_text \in {<<>>, <<RunTag(r)>>}
        /\ \A i \in 1..Len(llmCalls[r]) :
              /\ llmCalls[r][i].api_key = <<"k", RunTag(r)>>
              /\ llmCalls[r][i].prompt.placeholders = <<RunTag(r)>>
              /\ llmCalls[r][i].prompt.text \in {<<>>, <<RunTag(r)>>}
        /\ Has(r, "llm_response") => local[r].llm_response.text \in {RunResponse(r), R_trailing}
        /\ Has(r, "context") => local[r].context = OwnContext(r)
        /\ \A i \in 1..Len(output[r]) :
              /\ output[r][i].template.vars = <<RunTag(r)>>
              /\ output[r][i].context = OwnContext(r)

\* Two concurrent runs of the form have both delivered their document.
C8_Witness ==
    /\ fe[1] = "streamlit" /\ fe[2] = "streamlit"
    /\ output[1] # <<>> /\ output[2] # <<>>

\* C9: whatever the report documents, extraction returns, without failing, the
\* newline-joined texts of the pages that yielded text, in order.
C9_ExtractedText ==
    \A r \in Runs :
        Has(r, "extracted_text") \/ (Done(r) /\ result[r].stage = "extraction") =>
            /\ Has(r, "extracted_text")
            /\ local[r].extracted_text = JoinNL(YieldedTexts(ExtractorInput(r)))

\* C10: a response that decodes to something other than an object ends the run
\* with the not-valid-JSON error and is never rendered; an object is rendered
\* as decoded.
C10_OnlyObjects ==
    \A r \in Runs :
        Has(r, "llm_response") /\ ~local[r].llm_response.none =>
            LET parsed == json_loads(local[r].llm_response.text) IN
            parsed.ok =>
                IF parsed.val.t # "dict"
                THEN /\ rendered[r] = <<>>
                     /\ Done(r) => FormatError(r)
                ELSE \A i \in 1..Len(rendered[r]) : rendered[r][i] = parsed.val

====
